---- MODULE Spec2Model ----
(***************************************************************************)
(* Model of the channel-based task executor of                            *)
(* "2.2 - timer-future/src/main.rs": Spawner, Task, the ArcWake            *)
(* implementation and Executor::run, over std::sync::mpsc::sync_channel.   *)
(*                                                                         *)
(* Threads: the consumer "exec" (the thread that calls Executor::run),     *)
(* a producer thread that owns the Spawner handles, and a background       *)
(* thread that owns a Waker (an Arc<Task>) cloned out of a poll's Context. *)
(***************************************************************************)
EXTENDS Integers, Sequences, FiniteSets, TLC

\* ----- bounds of the model ------------------------------------------------
\* number of Tasks that may be spawned
MaxTasks == 2
\* number of sends (spawns and wake calls) after which no further wake call
\* is made
MaxPushes == 5
\* capacity given to sync_channel (the source uses 10_000, scaled down so
\* that a full queue is reachable)
MAX_QUEUED_TASKS == 2
\* number of Spawner handles that may exist at once (the first and its clones)
MaxSpawners == 2
\* http-server: the length of `buffer` (1024 in the source), scaled down to
\* just above the length of the longer request line
BufSize == 22
\* http-server: the number of bytes a request goes on for after the part it
\* shares with a request line
MaxTail == 2

Tasks == 1..MaxTasks
Producers == {"p1"}
WakerThreads == {"w1"}
\* the background threads of the timer stubs of the two-task scenario, one
\* per Task
StubThreads == {"s1", "s2"}
\* the threads that may hold a Waker
Holders == WakerThreads \cup StubThreads
Consumer == "exec"
Threads == {Consumer} \cup Producers \cup Holders

\* "no task": value of cur and of held when they refer to nothing
NoTask == 0
\* a queue item: an Arc<Task> tagged with the thread that sent it, the
\* number of that send among the thread's sends, and the operation it
\* comes from
NoEntry == [task |-> NoTask, by |-> "-", seq |-> 0, kind |-> "-"]
Entry(t, th, n, k) == [task |-> t, by |-> th, seq |-> n, kind |-> k]

VARIABLES
    pc,         \* position of the consumer thread in Executor::run
    cur,        \* the `task` local of the current loop iteration
    queue,      \* buffer of the sync_channel
    blocked,    \* per thread: the item of a send that waits for space
    spawner,    \* per producer thread: number of Spawner handles it owns
    held,       \* per thread that may hold a Waker: the Task it refers to
    slot,       \* per Task: Task.future ("unspawned", "Some" or "None")
    live,       \* per Task: allocated and not yet deallocated
    ready,      \* per Task: a poll has returned Ready
    polls,      \* per Task: polls started so far
    inPoll,     \* per Task: polls in progress
    wakeCalls,  \* per Task: calls of wake_by_ref so far
    wakeSince,  \* per Task: wake_by_ref called since its last poll began
    nPush,      \* per thread: sends called so far
    lastDeq,    \* per thread: seq of the last of its items received
    firstPolled, \* Tasks in the order of their first poll
    spawnedBy,  \* per Task: the producer thread that spawned it
    noConsumer, \* a send has failed because the Receiver was gone
    out,        \* two-task scenario: the events printed so far
    hpc,        \* http-server: position in handle_connection
    request,    \* http-server: the bytes the stream delivers (read_data)
    buffer,     \* http-server: the bytes read into `buffer`
    response    \* http-server: the bytes written to the stream (write_data)

\* the variables of the executor
execVars == <<pc, cur, queue, blocked, spawner, held, slot, live, ready,
              polls, inPoll, wakeCalls, wakeSince, nPush, lastDeq,
              firstPolled, spawnedBy, noConsumer>>
\* the variables of the http-server
httpVars == <<hpc, request, buffer, response>>
\* the variables the executor's own steps leave alone
extVars == <<out, httpVars>>
vars == <<execVars, out, httpVars>>

\* ----- reference counting and the channel ---------------------------------
RECURSIVE CountIn(_, _)
CountIn(q, t) ==
    IF q = <<>> THEN 0
    ELSE (IF Head(q).task = t THEN 1 ELSE 0) + CountIn(Tail(q), t)

\* strong count of the Arc<Task> of t: items in the channel, items of
\* sends in progress, the consumer's `task` local, and Wakers
Refs(q, b, c, h, t) ==
    CountIn(q, t)
    + Cardinality({th \in Threads : b[th].task = t})
    + (IF c = t THEN 1 ELSE 0)
    + Cardinality({w \in Holders : h[w] = t})

\* Arc drop: a Task whose last reference is gone is deallocated, together
\* with its future and its task_sender
Release(lv, q, b, c, h) ==
    [t \in Tasks |-> lv[t] /\ Refs(q, b, c, h, t) > 0]

\* SyncSender handles alive: one per Spawner handle, one per live Task
RECURSIVE Total(_, _)
Total(f, S) ==
    IF S = {} THEN 0
    ELSE LET x == CHOOSE y \in S : TRUE IN f[x] + Total(f, S \ {x})
SendersAliveSpawnersOnly == Total(spawner, Producers)
SendersAliveLeak == Total(spawner, Producers)
                    + Cardinality({t \in Tasks : live[t]}) + 1
SendersAlive == Total(spawner, Producers)
                + Cardinality({t \in Tasks : live[t]})

\* Receiver::recv reports Err when no sender is left and the buffer is empty
RecvDisconnectedEager == queue = <<>>
RecvDisconnected == queue = <<>> /\ SendersAlive = 0

\* the channel buffer is first-in first-out
EnqueueFront(q, e) == <<e>> \o q
EnqueueTwice(q, e) == Append(Append(q, e), e)
Enqueue(q, e) == Append(q, e)

\* SyncSender::send: push when there is space, otherwise wait for space
\* and fail (the caller's expect panics) when the Receiver has been dropped
Send(th, e) ==
    /\ nPush' = [nPush EXCEPT ![th] = @ + 1]
    /\ IF pc = "dropped"
       THEN /\ noConsumer' = TRUE
            /\ queue' = queue
            /\ blocked' = blocked
       ELSE /\ noConsumer' = noConsumer
            /\ IF Len(queue) < MAX_QUEUED_TASKS
               THEN /\ queue' = Enqueue(queue, e)
                    /\ blocked' = blocked
               ELSE /\ queue' = queue
                    /\ blocked' = [blocked EXCEPT ![th] = e]

Free(th) == blocked[th] = NoEntry

\* ----- Init ---------------------------------------------------------------
ExecInit ==
    /\ pc = "idle"
    /\ cur = NoTask
    /\ queue = <<>>
    /\ blocked = [th \in Threads |-> NoEntry]
    /\ spawner = [p \in Producers |-> IF p = "p1" THEN 1 ELSE 0]
    /\ held = [w \in Holders |-> NoTask]
    /\ slot = [t \in Tasks |-> "unspawned"]
    /\ live = [t \in Tasks |-> FALSE]
    /\ ready = [t \in Tasks |-> FALSE]
    /\ polls = [t \in Tasks |-> 0]
    /\ inPoll = [t \in Tasks |-> 0]
    /\ wakeCalls = [t \in Tasks |-> 0]
    /\ wakeSince = [t \in Tasks |-> FALSE]
    /\ nPush = [th \in Threads |-> 0]
    /\ lastDeq = [th \in Threads |-> 0]
    /\ firstPolled = <<>>
    /\ spawnedBy = [t \in Tasks |-> "-"]
    /\ noConsumer = FALSE
    /\ out = <<>>

\* the executor program: no connection is handled
Init ==
    /\ ExecInit
    /\ hpc = "off"
    /\ request = <<>>
    /\ buffer = <<>>
    /\ response = <<>>

\* ----- producers ----------------------------------------------------------
\* the next Task to be allocated
NextTask == CHOOSE t \in Tasks :
                slot[t] = "unspawned" /\ \A u \in Tasks : u < t => slot[u] # "unspawned"

\* Spawner::spawn
Spawn(p) ==
    /\ spawner[p] > 0 /\ Free(p)
    /\ \E t \in Tasks : slot[t] = "unspawned"
    /\ LET t == NextTask IN
         /\ slot' = [slot EXCEPT ![t] = "Some"]
         /\ live' = [live EXCEPT ![t] = TRUE]
         /\ spawnedBy' = [spawnedBy EXCEPT ![t] = p]
         /\ Send(p, Entry(t, p, nPush[p] + 1, "spawn"))
    /\ UNCHANGED <<pc, cur, spawner, held, ready, polls, inPoll, wakeCalls,
                   wakeSince, lastDeq, firstPolled,
                   extVars>>

\* #[derive(Clone)] on Spawner: one more handle
CloneSpawner(p) ==
    /\ spawner[p] > 0 /\ Free(p)
    /\ Total(spawner, Producers) < MaxSpawners
    /\ spawner' = [spawner EXCEPT ![p] = @ + 1]
    /\ UNCHANGED <<pc, cur, queue, blocked, held, slot, live, ready, polls,
                   inPoll, wakeCalls, wakeSince, nPush, lastDeq, firstPolled,
                   spawnedBy, noConsumer,
                   extVars>>

\* drop(spawner): one handle less
DropSpawner(p) ==
    /\ spawner[p] > 0 /\ Free(p)
    /\ spawner' = [spawner EXCEPT ![p] = @ - 1]
    /\ UNCHANGED <<pc, cur, queue, blocked, held, slot, live, ready, polls,
                   inPoll, wakeCalls, wakeSince, nPush, lastDeq, firstPolled,
                   spawnedBy, noConsumer,
                   extVars>>

\* a send that waited for space completes
SendComplete(th) ==
    /\ ~Free(th)
    /\ Len(queue) < MAX_QUEUED_TASKS
    /\ queue' = Enqueue(queue, blocked[th])
    /\ blocked' = [blocked EXCEPT ![th] = NoEntry]
    /\ UNCHANGED <<pc, cur, spawner, held, slot, live, ready, polls, inPoll,
                   wakeCalls, wakeSince, nPush, lastDeq, firstPolled,
                   spawnedBy, noConsumer,
                   extVars>>

\* ----- wakers -------------------------------------------------------------
\* sends called so far, over all threads
PushesSoFar == Total(nPush, Threads)

\* ArcWake::wake_by_ref, called by thread th on its reference to Task t
WakeByRef(th, t) ==
    /\ PushesSoFar < MaxPushes
    /\ wakeCalls' = [wakeCalls EXCEPT ![t] = @ + 1]
    /\ wakeSince' = [wakeSince EXCEPT ![t] = TRUE]
    /\ Send(th, Entry(t, th, nPush[th] + 1, "wake"))

\* a background thread calls wake_by_ref on the Waker it holds
WakerWake(w) ==
    /\ held[w] # NoTask /\ Free(w)
    /\ WakeByRef(w, held[w])
    /\ UNCHANGED <<pc, cur, spawner, held, slot, live, ready, polls, inPoll,
                   lastDeq, firstPolled,
                   spawnedBy,
                   extVars>>

\* a background thread drops the Waker it holds
DropWaker(w) ==
    /\ held[w] # NoTask /\ Free(w)
    /\ held' = [held EXCEPT ![w] = NoTask]
    /\ live' = Release(live, queue, blocked, cur, held')
    /\ UNCHANGED <<pc, cur, queue, blocked, spawner, slot, ready, polls,
                   inPoll, wakeCalls, wakeSince, nPush, lastDeq, firstPolled,
                   spawnedBy, noConsumer,
                   extVars>>

\* ----- the consumer: Executor::run ----------------------------------------
\* executor.run() is called
StartRun ==
    /\ pc = "idle"
    /\ pc' = "recv"
    /\ UNCHANGED <<cur, queue, blocked, spawner, held, slot, live, ready,
                   polls, inPoll, wakeCalls, wakeSince, nPush, lastDeq,
                   firstPolled,
                   spawnedBy, noConsumer,
                   extVars>>

\* `while let Ok(task) = self.ready_queue.recv()`: an item is received
RecvOk ==
    /\ pc = "recv"
    /\ queue # <<>>
    /\ cur' = Head(queue).task
    /\ lastDeq' = [lastDeq EXCEPT ![Head(queue).by] = Head(queue).seq]
    /\ queue' = Tail(queue)
    /\ pc' = "got"
    /\ UNCHANGED <<blocked, spawner, held, slot, live, ready, polls, inPoll,
                   wakeCalls, wakeSince, nPush, firstPolled,
                   spawnedBy, noConsumer,
                   extVars>>

\* recv reports Err: the loop ends and run returns
RecvErr ==
    /\ pc = "recv"
    /\ RecvDisconnected
    /\ pc' = "returned"
    /\ UNCHANGED <<cur, queue, blocked, spawner, held, slot, live, ready,
                   polls, inPoll, wakeCalls, wakeSince, nPush, lastDeq,
                   firstPolled,
                   spawnedBy, noConsumer,
                   extVars>>

\* main ends after run() has returned: the Executor and its Receiver are
\* dropped
DropExecutor ==
    /\ pc = "returned"
    /\ pc' = "dropped"
    /\ UNCHANGED <<cur, queue, blocked, spawner, held, slot, live, ready,
                   polls, inPoll, wakeCalls, wakeSince, nPush, lastDeq,
                   firstPolled, spawnedBy, noConsumer, extVars>>

\* `if let Some(mut future) = future_slot.take()`: the pattern matches a
\* slot that holds the future
isSomeAlways(s) == TRUE
isSome(s) == s = "Some"

\* Option::take leaves None in the slot
takeKeep(s) == s
take(s) == "None"

\* `future_slot.take()` finds Some: the poll begins
TakeSome ==
    /\ pc = "got"
    /\ isSome(slot[cur])
    /\ slot' = [slot EXCEPT ![cur] = take(@)]
    /\ polls' = [polls EXCEPT ![cur] = @ + 1]
    /\ inPoll' = [inPoll EXCEPT ![cur] = @ + 1]
    /\ wakeSince' = [wakeSince EXCEPT ![cur] = FALSE]
    /\ firstPolled' = IF polls[cur] = 0 THEN Append(firstPolled, cur)
                      ELSE firstPolled
    /\ pc' = "polling"
    /\ UNCHANGED <<cur, queue, blocked, spawner, held, live, ready,
                   wakeCalls, nPush, lastDeq,
                   spawnedBy, noConsumer,
                   extVars>>

\* `future_slot.take()` finds None: the iteration ends, `task` is dropped
TakeNone ==
    /\ pc = "got"
    /\ ~isSome(slot[cur])
    /\ cur' = NoTask
    /\ live' = Release(live, queue, blocked, cur', held)
    /\ pc' = "recv"
    /\ UNCHANGED <<queue, blocked, spawner, held, slot, ready, polls, inPoll,
                   wakeCalls, wakeSince, nPush, lastDeq, firstPolled,
                   spawnedBy, noConsumer,
                   extVars>>

\* during the poll the future clones the Waker of its Context and hands it
\* to a background thread
PollCloneWaker(w) ==
    /\ pc = "polling" /\ Free(Consumer)
    /\ held[w] = NoTask /\ Free(w)
    /\ held' = [held EXCEPT ![w] = cur]
    /\ UNCHANGED <<pc, cur, queue, blocked, spawner, slot, live, ready, polls,
                   inPoll, wakeCalls, wakeSince, nPush, lastDeq, firstPolled,
                   spawnedBy, noConsumer,
                   extVars>>

\* during the poll the future calls wake_by_ref on the consumer thread
PollWake ==
    /\ pc = "polling" /\ Free(Consumer)
    /\ WakeByRef(Consumer, cur)
    /\ UNCHANGED <<pc, cur, spawner, held, slot, live, ready, polls, inPoll,
                   lastDeq, firstPolled,
                   spawnedBy,
                   extVars>>

\* what the executor leaves in the slot after a poll
afterPendingDrop(s) == "None"
afterPending(s) == "Some"
afterReadyKeep(s) == "Some"
afterReady(s) == s

\* the executor pushes nothing onto the channel when a poll returns Pending
requeueOnPending(q, t) == Append(q, Entry(t, Consumer, 0, "wake"))
queueAfterPending(q, t) == q

\* poll returned Pending: the future goes back into the slot
PollPending ==
    /\ pc = "polling" /\ Free(Consumer)
    /\ slot' = [slot EXCEPT ![cur] = afterPending(@)]
    /\ inPoll' = [inPoll EXCEPT ![cur] = @ - 1]
    /\ queue' = queueAfterPending(queue, cur)
    /\ cur' = NoTask
    /\ live' = Release(live, queue', blocked, cur', held)
    /\ pc' = "recv"
    /\ UNCHANGED <<blocked, spawner, held, ready, polls, wakeCalls,
                   wakeSince, nPush, lastDeq, firstPolled,
                   spawnedBy, noConsumer,
                   extVars>>

\* poll returned Ready: the future is dropped, the slot stays None
PollReady ==
    /\ pc = "polling" /\ Free(Consumer)
    /\ slot' = [slot EXCEPT ![cur] = afterReady(@)]
    /\ ready' = [ready EXCEPT ![cur] = TRUE]
    /\ inPoll' = [inPoll EXCEPT ![cur] = @ - 1]
    /\ cur' = NoTask
    /\ live' = Release(live, queue, blocked, cur', held)
    /\ pc' = "recv"
    /\ UNCHANGED <<queue, blocked, spawner, held, polls, wakeCalls,
                   wakeSince, nPush, lastDeq, firstPolled,
                   spawnedBy, noConsumer,
                   extVars>>

\* ----- specifications -----------------------------------------------------
Next ==
    \/ \E p \in Producers : Spawn(p)
    \/ \E p \in Producers : CloneSpawner(p)
    \/ \E p \in Producers : DropSpawner(p)
    \/ \E th \in Threads : SendComplete(th)
    \/ \E w \in WakerThreads : WakerWake(w)
    \/ \E w \in WakerThreads : DropWaker(w)
    \/ StartRun
    \/ RecvOk
    \/ RecvErr
    \/ DropExecutor
    \/ TakeSome
    \/ TakeNone
    \/ \E w \in WakerThreads : PollCloneWaker(w)
    \/ PollWake
    \/ PollPending
    \/ PollReady

Spec == Init /\ [][Next]_vars

\* the consumer thread keeps running: each step of the loop that can be
\* taken is taken and every poll returns; and a send that waits for space
\* goes on once there is space. Producers and background threads are not
\* obliged to spawn, wake or drop anything.
FairSpec ==
    /\ Init
    /\ [][Next]_vars
    /\ WF_vars(RecvOk)
    /\ WF_vars(RecvErr)
    /\ WF_vars(TakeSome)
    /\ WF_vars(TakeNone)
    /\ WF_vars(PollPending \/ PollReady)
    /\ \A th \in Threads : WF_vars(SendComplete(th))

\* ----- vocabulary of the properties ---------------------------------------
Spawned(t) == slot[t] # "unspawned"
\* Executor::run has returned (the Executor may have been dropped since)
Returned == pc \in {"returned", "dropped"}
NoSpawnerLeft == \A p \in Producers : spawner[p] = 0
AllSpawnedReady == \A t \in Tasks : Spawned(t) => ready[t]
NoWakerLeft == \A w \in Holders : held[w] = NoTask
RefsNow(t) == Refs(queue, blocked, cur, held, t)
\* spawn(t) has returned: its send is no longer waiting
SpawnReturned(t) ==
    Spawned(t) /\ \A p \in Producers : blocked[p].task # t
\* the seq numbers of the items of th: those in the buffer, oldest first, then
\* the one of its waiting send
RECURSIVE SeqsOf(_, _)
SeqsOf(q, th) ==
    IF q = <<>> THEN <<>>
    ELSE (IF Head(q).by = th THEN <<Head(q).seq>> ELSE <<>>) \o SeqsOf(Tail(q), th)
Outstanding(th) ==
    SeqsOf(queue, th) \o (IF Free(th) THEN <<>> ELSE <<blocked[th].seq>>)
Before(a, b, order) ==
    \E i, j \in 1..Len(order) : i < j /\ order[i] = a /\ order[j] = b
\* t was polled, is in its slot, and no reference to it is queued, in flight
\* or in the consumer's hands
Idle(t) ==
    /\ slot[t] = "Some" /\ polls[t] > 0
    /\ cur # t
    /\ CountIn(queue, t) = 0
    /\ \A th \in Threads : blocked[th].task # t

\* ----- C1 -----------------------------------------------------------------
\* C1 (no double poll): for every Task at most one poll of its computation
\* is in progress, and while one is, the computation is out of the slot (the
\* slot holds None) and in the hands of the consumer's current iteration, so
\* that no other take can find it.
C1_NoDoublePoll ==
    \A t \in Tasks :
        /\ inPoll[t] <= 1
        /\ inPoll[t] = 1 => (slot[t] = "None" /\ pc = "polling" /\ cur = t)
        /\ (pc = "polling" /\ cur = t) => inPoll[t] = 1
\* a poll is in progress while a second reference to the same Task waits in
\* the queue and a background thread holds a Waker of it
C1_Witness ==
    \E t \in Tasks :
        /\ inPoll[t] = 1
        /\ CountIn(queue, t) > 0
        /\ \E w \in WakerThreads : held[w] = t

\* ----- C2 -----------------------------------------------------------------
\* C2 (completion): once a poll of a Task has reported Ready, the Task stays
\* ready, its slot holds None in every later state and no further poll of it
\* begins, whatever references to it are dequeued afterwards.
C2_Completion ==
    /\ [](\A t \in Tasks : ready[t] => slot[t] = "None")
    /\ [][\A t \in Tasks :
            ready[t] => /\ ready'[t]
                        /\ slot'[t] = "None"
                        /\ polls'[t] = polls[t]
                        /\ inPoll'[t] = 0]_vars
\* a reference to a completed Task has just been dequeued
C2_Witness ==
    \E t \in Tasks : ready[t] /\ pc = "got" /\ cur = t

\* ----- C3 -----------------------------------------------------------------
\* C3 as claimed (shutdown): once run() was called, every Spawner handle is
\* dropped and every spawned Task has reported Ready, run() eventually
\* returns.
C3_Claimed ==
    (pc # "idle" /\ NoSpawnerLeft /\ AllSpawnedReady) ~> Returned
\* C3 as amended: once run() was called, every Spawner handle is dropped,
\* every spawned Task has reported Ready and no Waker of any Task is still
\* held by another thread, run() eventually returns.
C3_Shutdown ==
    (pc # "idle" /\ NoSpawnerLeft /\ AllSpawnedReady /\ NoWakerLeft)
        ~> Returned
\* run() has returned after every Task was spawned and completed
C3_Witness ==
    /\ pc = "returned"
    /\ \A t \in Tasks : ready[t]
    /\ NoSpawnerLeft /\ NoWakerLeft

\* ----- C4 -----------------------------------------------------------------
\* C4 (spawn guarantee): once spawn has returned for a Task and run() has
\* been called, the Task is eventually polled.
C4_SpawnGuarantee ==
    \A t \in Tasks : (SpawnReturned(t) /\ pc # "idle") ~> (polls[t] > 0)

\* ----- C5 -----------------------------------------------------------------
\* C5 (QueueFull): a push attempted while the queue is at capacity fails at
\* once; no thread is ever left waiting inside send for space.
C5_QueueFull ==
    \A th \in Threads : Free(th)

\* ----- C6 -----------------------------------------------------------------
\* C6 (no indefinite blocking): while run() is executing, a thread that
\* waits inside spawn or wake (the consumer included) eventually gets out.
C6_NoIndefiniteBlock ==
    \A th \in Threads : (~Free(th) /\ pc # "idle") ~> Free(th)

\* ----- C7 -----------------------------------------------------------------
\* C7 (FIFO per producer): for every thread, its items not yet dequeued are,
\* from the head of the queue to the tail and then its waiting send, exactly
\* its pushes lastDeq+1 .. nPush in that order, so they are dequeued in the
\* order pushed; and of two Tasks spawned by one producer the one spawned
\* first gets its first poll first.
C7_FifoPerProducer ==
    /\ \A th \in Threads :
          Outstanding(th) =
              [i \in 1..(nPush[th] - lastDeq[th]) |-> lastDeq[th] + i]
    /\ \A a, b \in Tasks :
          (a < b /\ spawnedBy[a] = spawnedBy[b] /\ polls[b] > 0)
              => Before(a, b, firstPolled)
\* one producer spawned both Tasks, both got their first poll, and items of
\* another thread went through the queue as well
C7_Witness ==
    /\ firstPolled = <<1, 2>>
    /\ spawnedBy[1] = "p1" /\ spawnedBy[2] = "p1"
    /\ lastDeq["p1"] = 2
    /\ \E th \in Threads \ {"p1"} : lastDeq[th] >= 1 /\ Len(Outstanding(th)) >= 1

\* ----- C8 -----------------------------------------------------------------
\* C8 as claimed (idle task): a poll of a Task other than its first begins
\* only if wake was called on the Task during or after its previous poll.
C8_Claimed ==
    [][\A t \in Tasks :
          inPoll'[t] > inPoll[t] => (polls[t] = 0 \/ wakeSince[t])]_vars
\* C8 as amended: a Task whose poll returned Pending and of which no
\* reference is queued, in flight or held by the consumer stays unpolled and
\* in that state for as long as no wake call is made on it; and the step
\* that ends a poll leaves the queue and the waiting sends as they are.
C8_IdleTask ==
    /\ [][\A t \in Tasks :
            (Idle(t) /\ wakeCalls'[t] = wakeCalls[t])
                => (polls'[t] = polls[t] /\ Idle(t)')]_vars
    /\ [][(pc = "polling" /\ pc' = "recv")
            => (queue' = queue /\ blocked' = blocked)]_vars
\* a Task that returned Pending sits idle, kept alive by a Waker
C8_Witness ==
    \E t \in Tasks :
        /\ Idle(t) /\ live[t] /\ ~ready[t]
        /\ \E w \in WakerThreads : held[w] = t /\ Free(w)

\* ----- C9 -----------------------------------------------------------------
\* C9 (termination condition): when run() has returned, no Spawner handle
\* is alive, the queue is empty and no send is waiting.
C9_Termination ==
    Returned =>
        /\ NoSpawnerLeft
        /\ queue = <<>>
        /\ \A th \in Threads : Free(th)
\* run() has returned after Tasks were spawned and wake calls were made
C9_Witness ==
    /\ pc = "returned"
    /\ \E t \in Tasks : Spawned(t)
    /\ \E t \in Tasks : wakeCalls[t] > 0

\* ----- C10 ----------------------------------------------------------------
\* C10 as claimed (no cancellation): a spawned computation that has not
\* reported Ready is never discarded, and when run() has returned every
\* spawned computation has reported Ready.
C10_Claimed ==
    /\ \A t \in Tasks : (Spawned(t) /\ ~ready[t]) => live[t]
    /\ Returned => AllSpawnedReady
\* C10 as amended: a spawned computation that has not reported Ready is
\* discarded exactly when the last reference to its Task is gone, which
\* happens only after a poll of it; while a reference exists and no poll is
\* in progress it is in its slot; and when run() has returned every spawned
\* computation has reported Ready or was discarded in that way.
C10_NoCancel ==
    /\ \A t \in Tasks :
          (Spawned(t) /\ ~ready[t]) =>
              /\ live[t] <=> RefsNow(t) > 0
              /\ (live[t] /\ inPoll[t] = 0) => slot[t] = "Some"
              /\ ~live[t] => polls[t] > 0
    /\ Returned =>
          \A t \in Tasks : Spawned(t) => (ready[t] \/ ~live[t])
\* run() has returned although a spawned computation never reported Ready
C10_Witness ==
    /\ pc = "returned"
    /\ \E t \in Tasks : Spawned(t) /\ ~ready[t] /\ ~live[t]

\* references to Task t that were pushed and are not yet dequeued
QueuedRefs(t) ==
    CountIn(queue, t) + Cardinality({th \in Threads : blocked[th].task = t})

\* ----- the two-task scenario of main ---------------------------------------
\* the two Tasks main spawns
ScenarioTasks == {1, 2}
\* the background thread of the timer stub a Task waits on
StubOf(t) == IF t = 1 THEN "s1" ELSE "s2"
\* the scenario has printed event e ("A" or "B") of Task t
Emitted(e, t) == \E i \in 1..Len(out) : out[i] = [ev |-> e, task |-> t]

\* main: spawner.spawn(async { ... }), twice, before run() is called
MainSpawn ==
    /\ pc = "idle"
    /\ \E t \in ScenarioTasks : slot[t] = "unspawned"
    /\ Spawn("p1")

\* main: drop(spawner) after the two spawns
MainDrop ==
    /\ pc = "idle"
    /\ \A t \in ScenarioTasks : Spawned(t)
    /\ DropSpawner("p1")

\* main: executor.run() after the Spawner is dropped
MainRun ==
    /\ NoSpawnerLeft
    /\ StartRun

\* first poll of the task: it prints A and awaits the stub, which hands the
\* Waker of the Context to its background thread
ScenPollA ==
    /\ pc = "polling" /\ polls[cur] = 1 /\ ~Emitted("A", cur)
    /\ out' = Append(out, [ev |-> "A", task |-> cur])
    /\ held' = [held EXCEPT ![StubOf(cur)] = cur]
    /\ UNCHANGED <<pc, cur, queue, blocked, spawner, slot, live, ready, polls,
                   inPoll, wakeCalls, wakeSince, nPush, lastDeq, firstPolled,
                   spawnedBy, noConsumer, httpVars>>

\* the stub is not ready at its first poll: the task's poll returns Pending
ScenPending ==
    /\ pc = "polling" /\ polls[cur] = 1 /\ Emitted("A", cur)
    /\ PollPending

\* the stub's background thread calls wake, once
StubWake(w) ==
    /\ held[w] # NoTask /\ wakeCalls[held[w]] = 0
    /\ WakerWake(w)

\* the stub's background thread ends and drops its Waker
StubDrop(w) ==
    /\ held[w] # NoTask /\ wakeCalls[held[w]] > 0
    /\ DropWaker(w)

\* the poll after the wake: the stub is ready and the task prints B
ScenPollB ==
    /\ pc = "polling" /\ polls[cur] > 1 /\ ~Emitted("B", cur)
    /\ out' = Append(out, [ev |-> "B", task |-> cur])
    /\ UNCHANGED <<execVars, httpVars>>

\* the task's async block ends: its poll returns Ready
ScenReady ==
    /\ pc = "polling" /\ Emitted("B", cur)
    /\ PollReady

ScenarioNext ==
    \/ MainSpawn
    \/ MainDrop
    \/ MainRun
    \/ RecvOk
    \/ RecvErr
    \/ DropExecutor
    \/ TakeSome
    \/ ScenPollA
    \/ ScenPending
    \/ \E w \in StubThreads : StubWake(w)
    \/ \E w \in StubThreads : StubDrop(w)
    \/ ScenPollB
    \/ ScenReady

\* main, the executor loop and the stubs' background threads all keep
\* running
ScenarioSpec ==
    /\ Init
    /\ [][ScenarioNext]_vars
    /\ WF_vars(ScenarioNext)

\* C11 (two-task scenario): every execution prints both A events before
\* either B event, never meets an empty slot or a full queue, has printed
\* all four events when run() has returned, and run() does return.
C11_TwoTaskScenario ==
    /\ [](\A i, j \in 1..Len(out) :
            (out[i].ev = "A" /\ out[j].ev = "B") => i < j)
    /\ [](pc = "got" => isSome(slot[cur]))
    /\ [](\A th \in Threads : Free(th))
    /\ [](Returned =>
            \A t \in ScenarioTasks : Emitted("A", t) /\ Emitted("B", t))
    /\ <>Returned
\* run() has returned after the A events were printed in spawn order and the
\* B events in the opposite order
C11_Witness ==
    /\ pc = "returned"
    /\ Len(out) = 4
    /\ out[1].task = 1 /\ out[2].task = 2
    /\ out[3] = [ev |-> "B", task |-> 2] /\ out[4] = [ev |-> "B", task |-> 1]

\* ----- http-server: handle_connection --------------------------------------
\* b"GET / HTTP/1.1\r\n"
get == <<71, 69, 84, 32, 47, 32, 72, 84, 84, 80, 47, 49, 46, 49, 13, 10>>
\* b"GET /sleep HTTP/1.1\r\n"
sleep == <<71, 69, 84, 32, 47, 115, 108, 101, 101, 112, 32,
           72, 84, 84, 80, 47, 49, 46, 49, 13, 10>>
\* "HTTP/1.1 200 OK\r\n\r\n"
StatusOk == <<72, 84, 84, 80, 47, 49, 46, 49, 32, 50, 48, 48, 32, 79, 75,
              13, 10, 13, 10>>
\* "HTTP/1.1 404 NOT FOUND\r\n\r\n"
StatusNotFound == <<72, 84, 84, 80, 47, 49, 46, 49, 32, 52, 48, 52, 32,
                    78, 79, 84, 32, 70, 79, 85, 78, 68, 13, 10, 13, 10>>
\* fs::read_to_string(filename): the text of the two files
FileContents(filename) ==
    IF filename = "hello.html" THEN <<60, 104, 49, 62, 72, 105>>
    ELSE <<60, 104, 49, 62, 52, 48, 52>>

\* the requests tried: any part of a request line, followed by up to MaxTail
\* further bytes
TailBytes == {0, 13, 71}
Tails == UNION {[1..k -> TailBytes] : k \in 0..MaxTail}
Prefixes(line) == {SubSeq(line, 1, k) : k \in 0..Len(line)}
Requests ==
    {p \o tail : p \in Prefixes(get) \cup Prefixes(sleep), tail \in Tails}

\* slice::starts_with
starts_with_any(b, p) == TRUE
starts_with(b, p) ==
    /\ Len(b) >= Len(p)
    /\ \A i \in 1..Len(p) : b[i] = p[i]

\* MockTcpStream::poll_read into the zeroed buffer: the first
\* min(read_data.len(), buf.len()) bytes are copied
readInto(data) ==
    LET size == IF Len(data) < BufSize THEN Len(data) ELSE BufSize IN
    [i \in 1..BufSize |-> IF i <= size THEN data[i] ELSE 0]

\* format!("{}{}", status_line, contents)
format(status_line, contents) == status_line \o contents

\* a connection arrives with some request
HttpInit ==
    /\ ExecInit
    /\ hpc = "start"
    /\ request \in Requests
    /\ buffer = <<>>
    /\ response = <<>>

\* stream.read(&mut buffer).await
HttpRead ==
    /\ hpc = "start"
    /\ buffer' = readInto(request)
    /\ hpc' = "read"
    /\ UNCHANGED <<execVars, out, request, response>>

\* buffer.starts_with(get)
HttpGet ==
    /\ hpc = "read"
    /\ starts_with(buffer, get)
    /\ hpc' = "hello.html"
    /\ UNCHANGED <<execVars, out, request, buffer, response>>

\* buffer.starts_with(sleep): the task sleeps
HttpSleep ==
    /\ hpc = "read"
    /\ ~starts_with(buffer, get) /\ starts_with(buffer, sleep)
    /\ hpc' = "sleep"
    /\ UNCHANGED <<execVars, out, request, buffer, response>>

\* task::sleep(...).await is over
HttpSleepDone ==
    /\ hpc = "sleep"
    /\ hpc' = "hello.html"
    /\ UNCHANGED <<execVars, out, request, buffer, response>>

\* the else branch
HttpNotFound ==
    /\ hpc = "read"
    /\ ~starts_with(buffer, get) /\ ~starts_with(buffer, sleep)
    /\ hpc' = "404.html"
    /\ UNCHANGED <<execVars, out, request, buffer, response>>

\* the file is read, the response formatted and written:
\* MockTcpStream::poll_write keeps the whole buffer as write_data
HttpWrite ==
    /\ hpc \in {"hello.html", "404.html"}
    /\ response' = format(IF hpc = "hello.html" THEN StatusOk
                          ELSE StatusNotFound, FileContents(hpc))
    /\ hpc' = "written"
    /\ UNCHANGED <<execVars, out, request, buffer>>

\* stream.flush().await
HttpFlush ==
    /\ hpc = "written"
    /\ hpc' = "done"
    /\ UNCHANGED <<execVars, out, request, buffer, response>>

HttpNext ==
    \/ HttpRead
    \/ HttpGet
    \/ HttpSleep
    \/ HttpSleepDone
    \/ HttpNotFound
    \/ HttpWrite
    \/ HttpFlush

HttpSpec == HttpInit /\ [][HttpNext]_vars

\* sequence s begins with sequence p
BeginsWith(s, p) == Len(s) >= Len(p) /\ SubSeq(s, 1, Len(p)) = p

\* C12 (handle_connection): once the response is written, a request whose
\* bytes begin with the GET / line has got the 200 status line followed by
\* the contents of hello.html, and a request that begins with neither the
\* GET / line nor the GET /sleep line has got the 404 status line followed by
\* the contents of 404.html.
C12_HandleConnection ==
    hpc \in {"written", "done"} =>
        /\ BeginsWith(request, get) =>
            BeginsWith(response, StatusOk \o FileContents("hello.html"))
        /\ (~BeginsWith(request, get) /\ ~BeginsWith(request, sleep)) =>
            response = StatusNotFound \o FileContents("404.html")
\* the GET / line followed by further bytes was read, answered with the 200
\* status line and hello.html, and the stream flushed
C12_Witness ==
    /\ hpc = "done"
    /\ BeginsWith(request, get) /\ Len(request) > Len(get)
    /\ response = StatusOk \o FileContents("hello.html")

\* the last poll of Task t returned Pending, and a reference pushed by a
\* wake call made before or during that poll is still queued or in a send
WokenPending(t) ==
    /\ polls[t] > 0 /\ inPoll[t] = 0 /\ ~ready[t] /\ slot[t] = "Some"
    /\ QueuedRefs(t) > 0

\* C13 (no lost wake-up): a Task whose poll returned Pending and for which a
\* wake was called before or during that poll is eventually polled again.
C13_NoLostWakeup ==
    \A t \in Tasks : WokenPending(t) ~> (inPoll[t] = 1)

\* C14 (empty-slot no-op): an iteration that finds the slot of the dequeued
\* Task empty polls nothing, changes no Task's slot, pushes and removes
\* nothing and goes back to recv; the dequeue itself only removes the
\* reference at the head of the queue.
C14_EmptySlotNoOp ==
    [][/\ (pc = "recv" /\ pc' = "got") =>
            /\ queue' = Tail(queue) /\ cur' = Head(queue).task
            /\ slot' = slot /\ polls' = polls /\ inPoll' = inPoll
       /\ (pc = "got" /\ slot[cur] # "Some" /\ pc' # pc) =>
            /\ pc' = "recv"
            /\ slot' = slot /\ queue' = queue /\ blocked' = blocked
            /\ polls' = polls /\ inPoll' = inPoll /\ ready' = ready]_vars
\* a wake reference of a completed Task was dequeued and discarded without a
\* poll, the loop is back at recv and the other Task still has its computation
C14_Witness ==
    /\ pc = "recv"
    /\ \E t \in Tasks :
        /\ ready[t] /\ live[t] /\ polls[t] = 1 /\ wakeCalls[t] = 1
        /\ QueuedRefs(t) = 0
        /\ \E u \in Tasks \ {t} : slot[u] = "Some"

\* C15 (queue closure follows Task lifetime): run() has returned only when
\* every Spawner handle is dropped and no Task is alive any more (no
\* reference to it is left anywhere); and while any Task is alive, in
\* particular a Pending one kept by a Waker with all Spawners dropped and
\* the queue empty, no step makes run() return.
C15_QueueClosure ==
    /\ [](Returned =>
            /\ NoSpawnerLeft
            /\ \A t \in Tasks : ~live[t] /\ RefsNow(t) = 0)
    /\ [][(\E t \in Tasks : live[t]) => pc' \notin {"returned", "dropped"}]_vars
\* run() waits in recv: every Spawner is dropped and the queue is empty, and
\* a Waker held by another thread keeps a Pending Task alive
C15_Witness ==
    /\ pc = "recv" /\ NoSpawnerLeft /\ queue = <<>>
    /\ \A th \in Threads : Free(th)
    /\ \E t \in Tasks :
        /\ live[t] /\ polls[t] > 0 /\ ~ready[t] /\ slot[t] = "Some"
        /\ \E w \in Holders : held[w] = t

\* what a wake call leaves alone: the executor's position, every slot and
\* result, the polls, the handles and the Tasks alive
WakeFrame ==
    /\ pc' = pc /\ cur' = cur /\ slot' = slot /\ ready' = ready
    /\ polls' = polls /\ inPoll' = inPoll /\ live' = live
    /\ held' = held /\ spawner' = spawner

\* C16 (wake effect): a wake call on Task t whose send goes through appends
\* exactly one reference to t at the tail of the queue, behind the
\* references already queued, which stay as they are; a wake call that finds
\* the queue full leaves the queue alone and appends that one reference at
\* the tail when its send goes on; nothing else changes.
C16_WakeEffect ==
    [][/\ \A t \in Tasks :
            wakeCalls'[t] # wakeCalls[t] =>
                /\ wakeCalls' = [wakeCalls EXCEPT ![t] = @ + 1]
                /\ \E th \in Threads :
                    LET e == Entry(t, th, nPush[th] + 1, "wake") IN
                    \/ queue' = Append(queue, e) /\ blocked' = blocked
                    \/ /\ Len(queue) = MAX_QUEUED_TASKS
                       /\ queue' = queue
                       /\ blocked[th] = NoEntry
                       /\ blocked' = [blocked EXCEPT ![th] = e]
                /\ WakeFrame
       /\ \A th \in Threads :
            (blocked[th].kind = "wake" /\ blocked'[th] # blocked[th]) =>
                /\ queue' = Append(queue, blocked[th])
                /\ blocked' = [blocked EXCEPT ![th] = NoEntry]
                /\ wakeCalls' = wakeCalls
                /\ WakeFrame]_vars
\* the reference pushed by a wake call is the last of two queued references,
\* behind a reference to the other Task, and its Task's slot still holds the
\* computation
C16_Witness ==
    /\ Len(queue) = 2
    /\ queue[2].kind = "wake" /\ queue[1].task # queue[2].task
    /\ slot[queue[2].task] = "Some"

\* C17 (NoConsumer unreachable): no send ever finds the Receiver gone; once
\* run() has returned no Spawner handle, no Waker and no Task is left and no
\* send is waiting, so no push can be attempted any more, before or after
\* the Executor is dropped.
C17_NoConsumerUnreachable ==
    /\ ~noConsumer
    /\ Returned =>
        /\ NoSpawnerLeft /\ NoWakerLeft
        /\ \A th \in Threads : Free(th)
        /\ \A t \in Tasks : ~live[t]
        /\ ~ENABLED ((\E p \in Producers : Spawn(p)) \/
                     (\E w \in Holders : WakerWake(w)) \/ PollWake)
\* the Executor was dropped after a run in which every Task was spawned and
\* woken, and no send had failed
C17_Witness ==
    /\ pc = "dropped" /\ ~noConsumer
    /\ \A t \in Tasks : Spawned(t) /\ wakeCalls[t] > 0

\* C18 (poll accounting): each dequeued reference causes at most one poll:
\* the polls a Task has received are at most 1 (its spawn enqueue) plus the
\* wake calls made on it so far, even when its references that are still
\* queued, waiting in a send or just dequeued are counted as polls.
C18_PollAccounting ==
    \A t \in Tasks :
        /\ polls[t] <= (IF Spawned(t) THEN 1 ELSE 0) + wakeCalls[t]
        /\ polls[t] + QueuedRefs(t) + (IF pc = "got" /\ cur = t THEN 1 ELSE 0)
               <= (IF Spawned(t) THEN 1 ELSE 0) + wakeCalls[t]
\* a Task woken once has been polled twice: the bound is reached
C18_Witness ==
    \E t \in Tasks : polls[t] = 2 /\ wakeCalls[t] = 1 /\ inPoll[t] = 0

\* C19 (slot invariant): between iterations, and when the next reference has
\* just been dequeued, the slot of every live Task is empty exactly when its
\* computation has reported Ready; a Task not yet Ready has its computation
\* in the slot.
C19_SlotInvariant ==
    pc \in {"recv", "got"} =>
        \A t \in Tasks :
            (Spawned(t) /\ live[t]) =>
                /\ slot[t] = "None" <=> ready[t]
                /\ ~ready[t] => slot[t] = "Some"
\* between iterations one live Task has completed and another, polled and
\* still Pending, has its computation back in its slot
C19_Witness ==
    /\ pc = "recv"
    /\ \E t \in Tasks : live[t] /\ ready[t] /\ slot[t] = "None"
    /\ \E t \in Tasks : live[t] /\ polls[t] > 0 /\ ~ready[t] /\ slot[t] = "Some"

TypeOK ==
    /\ pc \in {"idle", "recv", "got", "polling", "returned", "dropped"}
    /\ cur \in Tasks \cup {NoTask}
    /\ Len(queue) <= MAX_QUEUED_TASKS
    /\ \A t \in Tasks : slot[t] \in {"unspawned", "Some", "None"}
    /\ \A t \in Tasks : inPoll[t] \in 0..1
    /\ noConsumer \in BOOLEAN
====
